---------------------------- MODULE Spec2Model ----------------------------
(***************************************************************************)
(* A model of StatusPageClient (examples/common/client.py): one client      *)
(* instance, its configuration and retry policy, and the calls made on it.  *)
(* The server is the environment: every network call is answered with any   *)
(* status and body, or fails in transport.                                  *)
(*                                                                          *)
(* Durations (seconds) and the backoff multiplier are floats in the source. *)
(* They are modelled as exact rationals <<numerator, denominator>>; the     *)
(* values drawn are products of small integers and powers of two, on which  *)
(* float arithmetic is exact.                                               *)
(***************************************************************************)
EXTENDS Integers, Sequences, FiniteSets, TLC

(***************************************************************************)
(* Bounds of the model.                                                     *)
(***************************************************************************)
MaxRetriesBound == 3
MaxCalls == 2

(***************************************************************************)
(* Program constants.                                                       *)
(***************************************************************************)
DefaultMaxRetries == 3
DefaultMaxBackoff == 32

None == "None"

\* Python truthiness of an Optional[str]: None and "" are both false.
Truthy(x) == x # None /\ x # ""

(***************************************************************************)
(* Rational arithmetic for the float expressions of the retry loop.         *)
(***************************************************************************)
RECURSIVE GCD(_, _)
GCD(a, b) == IF b = 0 THEN a ELSE GCD(b, a % b)

Norm(r) == LET g == GCD(r[1], r[2]) IN IF g = 0 THEN r ELSE <<r[1] \div g, r[2] \div g>>

Secs(n) == <<n, 1>>

RLeq(a, b) == a[1] * b[2] <= b[1] * a[2]

\* min(backoff, self.max_backoff): Python's min returns the first of two equals.
FloatMin(a, b) == IF RLeq(a, b) THEN a ELSE b

\* backoff *= self.backoff_multiplier
FloatMul(a, b) == Norm(<<a[1] * b[1], a[2] * b[2]>>)

(***************************************************************************)
(* The inputs: configurations, retry policies, server answers.              *)
(***************************************************************************)
Tokens == {"t1", "t2"}

\* Config.DEFAULT_BASE_URL
DEFAULT_BASE_URL == "https://app.nobl9.com"

Configs ==
    [client_id : {None, "id"}, client_secret : {None, "secret"},
     api_token : {None, "tok0"}, organization : {"org"},
     base_url : {DEFAULT_BASE_URL}]

\* The backoff settings a client is constructed with: the defaults (sleeps
\* 1, 2, 4), a cap reached at the third sleep, a cap below the initial value,
\* a constant backoff, and multipliers below one alone and under a cap.
Half == <<1, 2>>
RetryProfiles ==
    {[initial_backoff |-> Secs(1), max_backoff |-> Secs(DefaultMaxBackoff), backoff_multiplier |-> Secs(2)],
     [initial_backoff |-> Secs(1), max_backoff |-> Secs(3), backoff_multiplier |-> Secs(2)],
     [initial_backoff |-> Secs(5), max_backoff |-> Secs(3), backoff_multiplier |-> Secs(2)],
     [initial_backoff |-> Secs(1), max_backoff |-> Secs(DefaultMaxBackoff), backoff_multiplier |-> Secs(1)],
     [initial_backoff |-> Secs(1), max_backoff |-> Secs(DefaultMaxBackoff), backoff_multiplier |-> Half],
     [initial_backoff |-> Secs(5), max_backoff |-> Secs(3), backoff_multiplier |-> Half]}

\* 504 stands for "every other status".
Statuses == {200, 201, 400, 401, 404, 429, 500, 502, 503, 504}

\* A response body: empty, a JSON object, or text that is not JSON.
EmptyBody == ""
JsonBody == "{\"id\": 1}"
HtmlBody == "<html>"
Bodies == {EmptyBody, JsonBody, HtmlBody}

\* The decoded JSON object, as the set of its keys; {} is the empty mapping.
EmptyMapping == {}
JsonValid(body) == body = JsonBody
JsonDecode(body) == IF body = JsonBody THEN {"id"} ELSE EmptyMapping

\* request_func() either yields a response or raises in transport.
\* A 200 or 201 answer carries any body; an error answer carries no body or
\* an error page.
NoResponse == [status |-> 0, body |-> EmptyBody]
BodiesOf(status) == IF status \in {200, 201} THEN Bodies ELSE {EmptyBody, HtmlBody}
Responses ==
    {[status |-> s, body |-> b] : <<s, b>> \in {x \in Statuses \X Bodies : x[2] \in BodiesOf(x[1])}}
        \cup {NoResponse}

(***************************************************************************)
(* Outcomes of a call: a returned value or a raised exception.              *)
(* line is the source line of the return or raise statement.                *)
(***************************************************************************)
NoOutcome ==
    [kind |-> "none", exc |-> "", status |-> 0, text |-> "", attempts |-> 0,
     payload |-> EmptyMapping, token |-> None, line |-> 0]

Return(payload, line) ==
    [NoOutcome EXCEPT !.kind = "return", !.payload = payload, !.line = line]

ReturnToken(token, line) ==
    [NoOutcome EXCEPT !.kind = "return", !.token = token, !.line = line]

\* An exception of class exc whose message carries status and text.
Raise(exc, status, text, line) ==
    [NoOutcome EXCEPT !.kind = "raise", !.exc = exc, !.status = status,
                      !.text = text, !.line = line]

\* The classes of the client's error taxonomy; all derive from APIError.
TypedErrors ==
    {"APIError", "AuthenticationError", "NotFoundError", "RateLimitError",
     "ValidationError", "TransientAPIError"}

\* `x or default` on a string.
OrDefault(x, default) == IF x # "" THEN x ELSE default


(***************************************************************************)
(* _handle_response: the classification of a response by its status code.   *)
(***************************************************************************)
\* response.json(): the decoded body, or the decoder's error.
Json(body, line) ==
    IF JsonValid(body) THEN Return(JsonDecode(body), line)
    ELSE Raise("JSONDecodeError", 0, "", line)

\* Faulty variant: only 503 is retryable; 502 falls to the last branch.
RetryableStatusesOnly503 == {503}

\* elif response.status_code in (502, 503)
RetryableStatuses == {502, 503}

HandleResponse(resp) ==
    CASE resp.status = 200 ->
            IF resp.body # EmptyBody THEN Json(resp.body, 216)
            ELSE Return(EmptyMapping, 216)
      [] resp.status = 201 -> Json(resp.body, 218)
      [] resp.status = 400 ->
            Raise("ValidationError", 0,
                  OrDefault(resp.body, "Bad request - invalid parameters"), 221)
      [] resp.status = 401 -> Raise("AuthenticationError", 0, "", 223)
      [] resp.status = 404 -> Raise("NotFoundError", 0, "", 227)
      [] resp.status = 429 -> Raise("RateLimitError", 0, "", 229)
      [] resp.status = 500 -> Raise("APIError", 0, resp.body, 231)
      [] resp.status \in RetryableStatuses ->
            Raise("TransientAPIError", resp.status,
                  OrDefault(resp.body, "Service temporarily unavailable"), 235)
      [] OTHER -> Raise("APIError", resp.status, resp.body, 239)

(***************************************************************************)
(* Authorization headers.  base64 is injective; B64 keeps that and is not   *)
(* the identity.                                                            *)
(***************************************************************************)
B64(s) == "b64(" \o s \o ")"

NoAuth == [scheme |-> "none", cred |-> ""]
\* Faulty variant: the header is built from the configured token, not from
\* the token passed.
BearerOfApiToken(token) == [scheme |-> "Bearer", cred |-> "tok0"]
Bearer(token) == [scheme |-> "Bearer", cred |-> token]
Basic(id, secret) == [scheme |-> "Basic", cred |-> B64(id \o ":" \o secret)]
\* get, post and put send through self.session, whose headers are read when
\* the request is made.
ViaSession == [scheme |-> "session", cred |-> ""]

TokenUrl == "/api/accessToken"
ResourceUrl == "/api/dashboards/v1"

\* The body of a 200 answer of the token endpoint that carries token t.
TokenBody(t) == "{\"access_token\": \"" \o t \o "\"}"
TokenBodies == {TokenBody(t) : t \in Tokens} \cup {JsonBody, HtmlBody}
TokenResponses == [status : {200, 401, 500}, body : TokenBodies] \cup {NoResponse}

\* response.json()["access_token"]
AccessTokenOf(body, line) ==
    IF \E t \in Tokens : body = TokenBody(t)
    THEN ReturnToken(CHOOSE t \in Tokens : body = TokenBody(t), line)
    ELSE IF JsonValid(body) THEN Raise("KeyError", 0, "access_token", line)
    ELSE Raise("JSONDecodeError", 0, body, line)

(***************************************************************************)
(* The events of a call, in the order the code performs them.               *)
(***************************************************************************)
RequestEvent(url, authz, status) ==
    [ev |-> "request", url |-> url, auth |-> authz, status |-> status, dur |-> Secs(0)]
SleepEvent(d) ==
    [ev |-> "sleep", url |-> "", auth |-> NoAuth, status |-> 0, dur |-> d]

VARIABLES
    config,              \* self.config
    max_retries,         \* self.max_retries
    initial_backoff,     \* self.initial_backoff
    max_backoff,         \* self.max_backoff
    backoff_multiplier,  \* self.backoff_multiplier
    access_token,        \* self.access_token
    session_auth,        \* self.session.headers["Authorization"]
    pc,                  \* "idle", "token" (before the POST to the token endpoint),
                         \* "attempt" (before request_func() of the retry loop)
    op,                  \* the operation in progress, or the last one: "request"
                         \* (get, post or put), "post_external", "_get_access_token"
    method,              \* the HTTP method of the request_func closure
    request_auth,        \* the Authorization of the request_func closure
    attempt,             \* _request_with_retry: the loop index
    backoff,             \* _request_with_retry: backoff
    last_exception,      \* _request_with_retry: last_exception
    response,            \* what the latest request_func() yielded
    log,                 \* the network calls and sleeps of the current call
    result,              \* how the current call ended
    calls,               \* the number of calls made on the client
    token_calls,         \* the number of requests sent to the token endpoint
    token_ok,            \* the number of token acquisitions that yielded a token
    acquired_by,         \* the caller of the _get_access_token that yielded the
                         \* token: "_ensure_authenticated", or "direct"
    environ,             \* os.environ after load_dotenv()
    loaded,              \* the Config object the script holds, or NoConfig
    loaded_by,           \* what made it: "get_config" or "Config", or "none"
    loader_result,       \* how the call that loads the configuration ended
    no_retry,            \* external_issue_complete_example: args.no_retry
    reporter_max_retries,     \* ExternalIssueReporter: self.max_retries
    reporter_initial_backoff, \* ExternalIssueReporter: self.initial_backoff
    reporter_pc,         \* "unused", "idle", "attempt" (before requests.post), "done"
    reporter_attempt,    \* ExternalIssueReporter._request_with_retry: attempt
    reporter_backoff,    \* ExternalIssueReporter._request_with_retry: backoff
    last_error,          \* ExternalIssueReporter._request_with_retry: last_error
    reporter_log,        \* the POSTs and sleeps of report_issue
    reporter_result,     \* how report_issue ended
    issue_max_retries,   \* create_external_issue_with_retry: max_retries
    issue_pc,            \* "unused", "loop" (in the for loop), "done"
    issue_attempt,       \* create_external_issue_with_retry: attempt
    issue_backoff,       \* create_external_issue_with_retry: backoff
    issue_last_error,    \* create_external_issue_with_retry: last_error
    issue_log,           \* the calls of create_external_issue and the sleeps
    issue_posts,         \* the HTTP POSTs those calls sent
    issue_result,        \* how create_external_issue_with_retry ended
    alert_severity,      \* monitoring_integration: sys.argv[2]
    monitoring_system,   \* monitoring_integration: monitoring_system
    monitor_pc,          \* "unused", "main", "alert" (payload built), "done"
    issue_payload,       \* simulate_monitoring_alert: issue_payload
    monitor_exit,        \* the exit status of monitoring_integration, or NotExited
    severity,            \* incident_workflow: sys.argv[2]
    workflow_pc,         \* "unused", "main", "run" (in run_incident_workflow), "done"
    workflow_calls,      \* the client calls run_incident_workflow issued, in order
    workflow_exit,       \* the exit status of incident_workflow, or NotExited
    threshold,           \* Nobl9_QualityGate_PP: args.threshold
    slo_data,            \* what get_slo_status returned
    gate_pc,             \* "unused", "main", "evaluate", "done"
    gate_result,         \* how the step that ended the script ended
    gate_exit            \* the exit status of Nobl9_QualityGate_PP, or NotExited

clientVars ==
    <<config, max_retries, initial_backoff, max_backoff, backoff_multiplier,
      access_token, session_auth, pc, op, method, request_auth, attempt, backoff,
      last_exception, response, log, result, calls, token_calls, token_ok,
      acquired_by>>

loaderVars == <<environ, loaded, loaded_by, loader_result>>

reporterVars ==
    <<no_retry, reporter_max_retries, reporter_initial_backoff, reporter_pc,
      reporter_attempt, reporter_backoff, last_error, reporter_log, reporter_result>>

issueVars ==
    <<issue_max_retries, issue_pc, issue_attempt, issue_backoff, issue_last_error,
      issue_log, issue_posts, issue_result>>

monitorVars ==
    <<alert_severity, monitoring_system, monitor_pc, issue_payload, monitor_exit>>

workflowVars == <<severity, workflow_pc, workflow_calls, workflow_exit>>

gateVars == <<threshold, slo_data, gate_pc, gate_result, gate_exit>>

\* The variables of the example scripts and of the quality gate.
exampleVars == <<issueVars, monitorVars, workflowVars, gateVars>>

vars == <<clientVars, loaderVars, reporterVars, exampleVars>>

\* The variables of the programs other than the client.
elsewhere == <<loaderVars, reporterVars, exampleVars>>

policy == <<max_retries, initial_backoff, max_backoff, backoff_multiplier>>
locals == <<method, request_auth, attempt, backoff, last_exception>>
counters == <<token_calls, token_ok, acquired_by>>

NoBackoff == Secs(0)

\* No ExternalIssueReporter has been constructed.
ReporterUnused ==
    /\ no_retry = FALSE
    /\ reporter_max_retries = 0
    /\ reporter_initial_backoff = NoBackoff
    /\ reporter_pc = "unused"
    /\ reporter_attempt = 0
    /\ reporter_backoff = NoBackoff
    /\ last_error = None
    /\ reporter_log = << >>
    /\ reporter_result = NoOutcome

\* The environment variables Config reads, none of them set.
NoEnviron ==
    [NOBL9_CLIENT_ID |-> None, NOBL9_CLIENT_SECRET |-> None, NOBL9_ORG |-> None,
     NOBL9_BASE_URL |-> None, NOBL9_API_TOKEN |-> None]

\* The script holds no Config object.
NoConfig ==
    [client_id |-> None, client_secret |-> None, api_token |-> None,
     organization |-> None, base_url |-> None]

\* No configuration has been loaded from the environment.
LoaderUnused ==
    /\ environ = NoEnviron
    /\ loaded = NoConfig
    /\ loaded_by = "none"
    /\ loader_result = NoOutcome

\* No process has exited.
NotExited == 0 - 1

\* create_external_issue_with_retry has not been called.
IssueUnused ==
    /\ issue_max_retries = 0
    /\ issue_pc = "unused"
    /\ issue_attempt = 0
    /\ issue_backoff = NoBackoff
    /\ issue_last_error = NoOutcome
    /\ issue_log = << >>
    /\ issue_posts = 0
    /\ issue_result = NoOutcome

\* No payload has been built.
NoStatusChange == [present |-> FALSE, status |-> "", propagateUp |-> FALSE]
NoPayload == [requestedBy |-> "", statusChange |-> NoStatusChange]

\* monitoring_integration is not run.
MonitorUnused ==
    /\ alert_severity = ""
    /\ monitoring_system = ""
    /\ monitor_pc = "unused"
    /\ issue_payload = NoPayload
    /\ monitor_exit = NotExited

\* incident_workflow is not run.
WorkflowUnused ==
    /\ severity = ""
    /\ workflow_pc = "unused"
    /\ workflow_calls = << >>
    /\ workflow_exit = NotExited

\* No SLO data has been fetched.
NoSloData == [has_objectives |-> FALSE, objectives |-> << >>]

\* Nothing has ended the quality gate script.
NoGateResult ==
    [kind |-> "none", pass_gate |-> FALSE, error_budget_pct |-> Secs(0), line |-> 0]

\* Nobl9_QualityGate_PP is not run.
GateUnused ==
    /\ threshold = Secs(0)
    /\ slo_data = NoSloData
    /\ gate_pc = "unused"
    /\ gate_result = NoGateResult
    /\ gate_exit = NotExited

\* None of the example scripts is run.
ExamplesUnused == IssueUnused /\ MonitorUnused /\ WorkflowUnused /\ GateUnused

(***************************************************************************)
(* StatusPageClient.__init__                                                *)
(***************************************************************************)
Init ==
    /\ config \in Configs
    /\ max_retries \in 0..MaxRetriesBound
    /\ \E p \in RetryProfiles :
         /\ initial_backoff = p.initial_backoff
         /\ max_backoff = p.max_backoff
         /\ backoff_multiplier = p.backoff_multiplier
    /\ access_token = IF Truthy(config.api_token) THEN config.api_token ELSE None
    /\ session_auth = IF Truthy(config.api_token) THEN Bearer(config.api_token) ELSE NoAuth
    /\ pc = "idle"
    /\ op = "none"
    /\ method = "none"
    /\ request_auth = NoAuth
    /\ attempt = 0
    /\ backoff = NoBackoff
    /\ last_exception = NoOutcome
    /\ response = NoResponse
    /\ log = << >>
    /\ result = NoOutcome
    /\ calls = 0
    /\ token_calls = 0
    /\ token_ok = 0
    /\ acquired_by = "none"
    /\ LoaderUnused
    /\ ReporterUnused
    /\ ExamplesUnused

\* The call ends: control leaves the client with a value or an exception,
\* and the locals of _request_with_retry are gone.
Leave(out) ==
    /\ pc' = "idle"
    /\ result' = out
    /\ method' = "none"
    /\ request_auth' = NoAuth
    /\ attempt' = 0
    /\ backoff' = NoBackoff
    /\ last_exception' = NoOutcome

\* The statements after the retry loop.
AfterLoop(last) ==
    IF last.kind # "none" THEN Leave([last EXCEPT !.line = 195])
    ELSE Leave(Raise("APIError", 0, "Request failed with unknown error", 196))

\* Faulty variant: range(self.max_retries), as the other retry loops of the
\* repository are written.
LoopBoundWithoutPlusOne == max_retries

\* range(self.max_retries + 1)
LoopBound == max_retries + 1

\* Faulty variant: the backoff starts at the cap.
EnterRetryAtMaxBackoff(verb, authz) ==
    IF 0 < LoopBound
    THEN /\ pc' = "attempt"
         /\ result' = NoOutcome
         /\ request_auth' = authz
         /\ attempt' = 0
         /\ backoff' = max_backoff
         /\ last_exception' = NoOutcome
         /\ method' = verb
    ELSE AfterLoop(NoOutcome)

\* _request_with_retry up to its first request_func(): the locals are set and
\* the loop is entered if its range is not empty.
EnterRetry(verb, authz) ==
    IF 0 < LoopBound
    THEN /\ pc' = "attempt"
         /\ result' = NoOutcome
         /\ request_auth' = authz
         /\ attempt' = 0
         /\ backoff' = initial_backoff
         /\ last_exception' = NoOutcome
         /\ method' = verb
    ELSE AfterLoop(NoOutcome)

\* Faulty variant: the secret is not looked at.
HasCredentialsIdOnly == Truthy(config.client_id)

\* not (not self.config.client_id or not self.config.client_secret)
HasCredentials == Truthy(config.client_id) /\ Truthy(config.client_secret)

\* Faulty variant: the cached token is not looked at.
CachedNever == FALSE

\* Faulty variant: only a token the token endpoint issued counts as cached.
CachedOnlyIssued == access_token \in Tokens

\* if self.access_token
Cached == Truthy(access_token)

\* A call starts.  The calls of a client are bounded by MaxCalls, or by the
\* loop of create_external_issue_with_retry when that loop makes them.
Begin(name) ==
    /\ pc = "idle"
    /\ calls < (IF issue_pc = "unused" THEN MaxCalls ELSE issue_max_retries)
    /\ calls' = calls + 1
    /\ op' = name
    /\ log' = << >>
    /\ response' = NoResponse
    /\ UNCHANGED elsewhere

(***************************************************************************)
(* get, post, put: _ensure_authenticated, then _request_with_retry on a     *)
(* closure that sends through the session.  The three differ only in the    *)
(* session method the closure calls.                                        *)
(***************************************************************************)
Request(verb) ==
    /\ Begin("request")
    /\ IF Cached
       THEN EnterRetry(verb, ViaSession)
       ELSE IF ~HasCredentials
       THEN Leave(Raise("AuthenticationError", 0, "", 102))
       ELSE /\ pc' = "token"
            /\ result' = NoOutcome
            /\ method' = verb
            /\ UNCHANGED <<request_auth, attempt, backoff, last_exception>>
    /\ UNCHANGED <<config, policy, access_token, session_auth, counters>>

Get == Request("GET")

Post == Request("POST")

Put == Request("PUT")

(***************************************************************************)
(* _get_access_token called on its own, up to its POST.                     *)
(***************************************************************************)
\* Faulty variant: the early return of the cached token is missing.
GetAccessTokenUncached ==
    /\ Begin("_get_access_token")
    /\ IF ~HasCredentials
       THEN Leave(Raise("AuthenticationError", 0, "", 102))
       ELSE /\ pc' = "token"
            /\ result' = NoOutcome
            /\ UNCHANGED locals
    /\ UNCHANGED <<config, policy, access_token, session_auth, counters>>

\* Faulty variant: the test of the client id and secret is missing.
GetAccessTokenUnchecked ==
    /\ Begin("_get_access_token")
    /\ IF Cached
       THEN Leave(ReturnToken(access_token, 98))
       ELSE /\ pc' = "token"
            /\ result' = NoOutcome
            /\ UNCHANGED locals
    /\ UNCHANGED <<config, policy, access_token, session_auth, counters>>

GetAccessToken ==
    /\ Begin("_get_access_token")
    /\ IF Cached
       THEN Leave(ReturnToken(access_token, 98))
       ELSE IF ~HasCredentials
       THEN Leave(Raise("AuthenticationError", 0, "", 102))
       ELSE /\ pc' = "token"
            /\ result' = NoOutcome
            /\ UNCHANGED locals
    /\ UNCHANGED <<config, policy, access_token, session_auth, counters>>

(***************************************************************************)
(* _get_access_token from its POST to the token endpoint on; when the       *)
(* caller is _ensure_authenticated the operation goes on to the retry loop. *)
(***************************************************************************)
\* Faulty variant: a status other than 200 and 401 raises the plain APIError.
TokenOutcomeOtherAsAPIError(resp) ==
    IF resp = NoResponse THEN Raise("ConnectionError", 0, "", 111)
    ELSE IF resp.status = 200 THEN AccessTokenOf(resp.body, 121)
    ELSE IF resp.status = 401 THEN Raise("AuthenticationError", 0, "", 126)
    ELSE Raise("APIError", resp.status, resp.body, 130)

TokenOutcome(resp) ==
    IF resp = NoResponse THEN Raise("ConnectionError", 0, "", 111)
    ELSE IF resp.status = 200 THEN AccessTokenOf(resp.body, 121)
    ELSE IF resp.status = 401 THEN Raise("AuthenticationError", 0, "", 126)
    ELSE Raise("AuthenticationError", resp.status, resp.body, 130)

TokenResponse ==
    /\ pc = "token"
    /\ \E resp \in TokenResponses :
         LET sent == RequestEvent(TokenUrl,
                                  Basic(config.client_id, config.client_secret),
                                  resp.status)
             got == TokenOutcome(resp)
         IN /\ log' = Append(log, sent)
            /\ token_calls' = token_calls + 1
            /\ IF got.kind = "return"
               THEN /\ access_token' = got.token
                    /\ session_auth' = Bearer(got.token)
                    /\ token_ok' = token_ok + 1
                    /\ acquired_by' = IF op = "_get_access_token" THEN "direct"
                                      ELSE "_ensure_authenticated"
                    /\ IF op = "_get_access_token"
                       THEN Leave(ReturnToken(got.token, 124))
                       ELSE EnterRetry(method, ViaSession)
               ELSE /\ Leave(got)
                    /\ UNCHANGED <<access_token, session_auth, token_ok, acquired_by>>
    /\ UNCHANGED <<config, policy, op, calls, response>>
    /\ UNCHANGED elsewhere

(***************************************************************************)
(* post_external up to the first request_func() of _request_with_retry.     *)
(***************************************************************************)
\* Faulty variant: the closure sends through the session, as get, post and
\* put do.
PostExternalViaSession ==
    /\ Begin("post_external")
    /\ IF ~HasCredentials
       THEN Leave(Raise("AuthenticationError", 0, "", 327))
       ELSE EnterRetry("POST", ViaSession)
    /\ UNCHANGED <<config, policy, access_token, session_auth, counters>>

PostExternal ==
    /\ Begin("post_external")
    /\ IF ~HasCredentials
       THEN Leave(Raise("AuthenticationError", 0, "", 327))
       ELSE EnterRetry("POST", Basic(config.client_id, config.client_secret))
    /\ UNCHANGED <<config, policy, access_token, session_auth, counters>>

(***************************************************************************)
(* One iteration of the loop of _request_with_retry: request_func(),        *)
(* _handle_response, and the except branches.                               *)
(***************************************************************************)
\* The TransientAPIError raised on the last attempt: it reports the number
\* of attempts and str(e) of the last error.
Exhausted(e) ==
    [Raise("TransientAPIError", e.status, e.text, 168) EXCEPT !.attempts = max_retries + 1]

\* What one attempt yields: the classification of the response, or the
\* transport's exception.
AttemptOutcome(resp) ==
    IF resp = NoResponse THEN Raise("ConnectionError", 0, "", 161)
    ELSE HandleResponse(resp)

\* Faulty variant: the retry clause catches APIError, and with it every subclass.
IsTransientAnyAPIError(out) == out.kind = "raise" /\ out.exc \in TypedErrors

\* Faulty variant: a RateLimitError is retried as well.
IsTransientOrRateLimit(out) ==
    out.kind = "raise" /\ out.exc \in {"TransientAPIError", "RateLimitError"}

IsTransient(out) == out.kind = "raise" /\ out.exc = "TransientAPIError"

\* Faulty variant: the test of the last attempt is missing.
LastAttemptNever(i) == FALSE

\* Faulty variant: the last attempt is not recognised, and the loop runs out.
LastAttemptOffByOne(i) == i > max_retries

\* if attempt >= self.max_retries
LastAttempt(i) == i >= max_retries

\* Where control leaves _request_with_retry when the attempt's outcome is not
\* a TransientAPIError: the return, the re-raise of the second except clause
\* (APIError and its subclasses), or the statement an exception that no
\* clause names passes through.
LineOfExit(out) ==
    IF out.kind = "return" THEN 162
    ELSE IF out.exc \in TypedErrors THEN 191
    ELSE IF out.exc = "ConnectionError" THEN 161
    ELSE 162

\* Faulty variant: the backoff is multiplied before the sleep, not after.
SleepTimeAfterMultiply == FloatMin(FloatMul(backoff, backoff_multiplier), max_backoff)

\* Faulty variant: the sleep is always the initial backoff, capped.
SleepTimeInitial == FloatMin(initial_backoff, max_backoff)

\* Faulty variant: the cap is forgotten.
SleepTimeUncapped == backoff

\* sleep_time = min(backoff, self.max_backoff)
SleepTime == FloatMin(backoff, max_backoff)

\* Faulty variant: a 401 on a resource request drops the cached token.
AttemptDroppingTokenOn401 ==
    /\ pc = "attempt"
    /\ \E resp \in Responses :
         LET authz == IF request_auth = ViaSession THEN session_auth ELSE request_auth
             sent == RequestEvent(ResourceUrl, authz, resp.status)
             out == AttemptOutcome(resp)
         IN /\ response' = resp
            /\ IF ~IsTransient(out)
               THEN /\ log' = Append(log, sent)
                    /\ Leave([out EXCEPT !.line = LineOfExit(out)])
               ELSE IF LastAttempt(attempt)
               THEN /\ log' = Append(log, sent)
                    /\ Leave(Exhausted(out))
               ELSE IF ~RLeq(Secs(0), SleepTime)
               THEN \* time.sleep rejects a negative duration
                    /\ log' = Append(log, sent)
                    /\ Leave(Raise("ValueError", 0, "", 184))
               ELSE /\ log' = log \o <<sent, SleepEvent(SleepTime)>>
                    /\ IF attempt + 1 < LoopBound
                       THEN /\ attempt' = attempt + 1
                            /\ backoff' = FloatMul(backoff, backoff_multiplier)
                            /\ last_exception' = out
                            /\ UNCHANGED <<pc, result, method, request_auth>>
                       ELSE AfterLoop(out)
    /\ access_token' = IF response'.status = 401 THEN None ELSE access_token
    /\ session_auth' = IF response'.status = 401 THEN NoAuth ELSE session_auth
    /\ UNCHANGED <<config, policy, op, calls, counters>>
    /\ UNCHANGED elsewhere

Attempt ==
    /\ pc = "attempt"
    /\ \E resp \in Responses :
         LET authz == IF request_auth = ViaSession THEN session_auth ELSE request_auth
             sent == RequestEvent(ResourceUrl, authz, resp.status)
             out == AttemptOutcome(resp)
         IN /\ response' = resp
            /\ IF ~IsTransient(out)
               THEN /\ log' = Append(log, sent)
                    /\ Leave([out EXCEPT !.line = LineOfExit(out)])
               ELSE IF LastAttempt(attempt)
               THEN /\ log' = Append(log, sent)
                    /\ Leave(Exhausted(out))
               ELSE IF ~RLeq(Secs(0), SleepTime)
               THEN \* time.sleep rejects a negative duration
                    /\ log' = Append(log, sent)
                    /\ Leave(Raise("ValueError", 0, "", 184))
               ELSE /\ log' = log \o <<sent, SleepEvent(SleepTime)>>
                    /\ IF attempt + 1 < LoopBound
                       THEN /\ attempt' = attempt + 1
                            /\ backoff' = FloatMul(backoff, backoff_multiplier)
                            /\ last_exception' = out
                            /\ UNCHANGED <<pc, result, method, request_auth>>
                       ELSE AfterLoop(out)
    /\ UNCHANGED <<config, policy, access_token, session_auth, op, calls, counters>>
    /\ UNCHANGED elsewhere

Next ==
    \/ Get
    \/ Post
    \/ Put
    \/ GetAccessToken
    \/ TokenResponse
    \/ PostExternal
    \/ Attempt

Spec == Init /\ [][Next]_vars

(***************************************************************************)
(* What a call did, read off its log.                                       *)
(***************************************************************************)
IsResourceRequest(e) == e.ev = "request" /\ e.url = ResourceUrl
IsTokenRequest(e) == e.ev = "request" /\ e.url = TokenUrl
IsSleep(e) == e.ev = "sleep"

ResourceRequests(l) == SelectSeq(l, IsResourceRequest)
Sleeps(l) == SelectSeq(l, IsSleep)
\* The events of _request_with_retry: its attempts and its sleeps.
RetryEvents(l) == SelectSeq(l, LAMBDA e : ~IsTokenRequest(e))

NumAttempts == Len(ResourceRequests(log))
NumSleeps == Len(Sleeps(log))
SleepDurations == [i \in 1..NumSleeps |-> Sleeps(log)[i].dur]
AttemptStatuses == [i \in 1..NumAttempts |-> ResourceRequests(log)[i].status]

TransientStatus(status) == status \in {502, 503}

\* k: how many transient answers the server gave in a row from the first
\* attempt on.
RECURSIVE LeadingTransient(_)
LeadingTransient(statuses) ==
    IF statuses = << >> \/ ~TransientStatus(Head(statuses)) THEN 0
    ELSE 1 + LeadingTransient(Tail(statuses))

Min(a, b) == IF a <= b THEN a ELSE b

\* The call has ended and it ended in _request_with_retry.
RetryExitLines == {161, 162, 168, 184, 191, 195, 196}
RetryDone == pc = "idle" /\ result.line \in RetryExitLines

(***************************************************************************)
(* C1: one call of _request_with_retry ends, by a return or a raise, after  *)
(* at most max_retries + 1 executions of the request; with max_retries = 0  *)
(* the request is executed exactly once.  Every step of the loop executes   *)
(* the request once more and either ends the call or moves to the next      *)
(* index, which stays within max_retries: the loop takes at most            *)
(* max_retries + 1 steps.                                                   *)
(***************************************************************************)
C1_TerminatesWithinBound ==
    [][/\ NumAttempts' <= max_retries + 1
       /\ pc = "attempt" =>
             /\ NumAttempts = attempt
             /\ NumAttempts' = NumAttempts + 1
             /\ \/ pc' = "idle" /\ result'.kind \in {"return", "raise"}
                \/ pc' = "attempt" /\ attempt' = attempt + 1 /\ attempt' <= max_retries
       /\ RetryDone' /\ max_retries = 0 => NumAttempts' = 1]_vars

C1_Witness ==
    /\ RetryDone
    /\ max_retries = MaxRetriesBound
    /\ NumAttempts = max_retries + 1
    /\ result.kind = "raise"

(***************************************************************************)
(* C2 as stated: when the server answers with k >= 1 transient statuses in  *)
(* a row from the first attempt on, the request is attempted exactly        *)
(* min(k, max_retries + 1) times.                                           *)
(***************************************************************************)
C2_AttemptsMinK ==
    RetryDone /\ LeadingTransient(AttemptStatuses) >= 1
        => NumAttempts = Min(LeadingTransient(AttemptStatuses), max_retries + 1)

(***************************************************************************)
(* C2 amended: a call that ended after k transient answers in a row from    *)
(* the first attempt on has attempted the request exactly                   *)
(* min(k + 1, max_retries + 1) times.                                       *)
(***************************************************************************)
C2_AttemptsMinKPlusOne ==
    RetryDone
        => NumAttempts = Min(LeadingTransient(AttemptStatuses) + 1, max_retries + 1)

C2_Witness ==
    /\ RetryDone
    /\ LeadingTransient(AttemptStatuses) = 2
    /\ max_retries = 3
    /\ NumAttempts = 3
    /\ AttemptStatuses[1] = 502
    /\ AttemptStatuses[2] = 503

(***************************************************************************)
(* C3: when the first response has a non-transient error status, the call   *)
(* makes exactly one attempt, does not sleep, and raises the error of that  *)
(* status as _handle_response raised it.                                    *)
(***************************************************************************)
ErrorKindOf(status) ==
    CASE status = 400 -> "ValidationError"
      [] status = 401 -> "AuthenticationError"
      [] status = 404 -> "NotFoundError"
      [] status = 429 -> "RateLimitError"
      [] OTHER -> "APIError"

SameException(a, b) ==
    /\ a.kind = "raise" /\ b.kind = "raise"
    /\ a.exc = b.exc /\ a.status = b.status /\ a.text = b.text
    /\ a.attempts = b.attempts

C3_NonTransientNotRetried ==
    RetryDone /\ NumAttempts >= 1 /\ AttemptStatuses[1] \notin {0, 200, 201, 502, 503}
        => /\ NumAttempts = 1
           /\ NumSleeps = 0
           /\ result.exc = ErrorKindOf(AttemptStatuses[1])
           /\ result.attempts = 0
           /\ SameException(result, HandleResponse(response))

C3_Witness ==
    /\ RetryDone
    /\ AttemptStatuses = <<429>>
    /\ result.exc = "RateLimitError"
    /\ log # << >>

(***************************************************************************)
(* C4: with max_retries = 3, initial_backoff = 1, backoff_multiplier = 2    *)
(* and max_backoff = 32, a call that is answered 503 every time makes four  *)
(* attempts, sleeps 1, 2 and 4 seconds before the 2nd, 3rd and 4th, does    *)
(* not sleep after the 4th, and raises TransientAPIError.                   *)
(***************************************************************************)
DefaultPolicy ==
    /\ max_retries = DefaultMaxRetries
    /\ initial_backoff = Secs(1)
    /\ backoff_multiplier = Secs(2)
    /\ max_backoff = Secs(DefaultMaxBackoff)

EventShape(l) == [i \in 1..Len(l) |-> <<l[i].ev, l[i].status, l[i].dur>>]

C4_DefaultBackoffSequence ==
    /\ DefaultPolicy
    /\ RetryDone
    /\ NumAttempts >= 1
    /\ \A i \in 1..NumAttempts : AttemptStatuses[i] = 503
    => /\ EventShape(RetryEvents(log)) =
              << <<"request", 503, Secs(0)>>, <<"sleep", 0, Secs(1)>>,
                 <<"request", 503, Secs(0)>>, <<"sleep", 0, Secs(2)>>,
                 <<"request", 503, Secs(0)>>, <<"sleep", 0, Secs(4)>>,
                 <<"request", 503, Secs(0)>> >>
       /\ result.kind = "raise"
       /\ result.exc = "TransientAPIError"

C4_Witness ==
    /\ DefaultPolicy
    /\ RetryDone
    /\ AttemptStatuses = <<503, 503, 503, 503>>
    /\ SleepDurations = <<Secs(1), Secs(2), Secs(4)>>

(***************************************************************************)
(* C5 as stated: under every retry policy the sleeps of one call are        *)
(* non-decreasing and each is at most max_backoff.                          *)
(***************************************************************************)
NonDecreasing(durs) == \A i \in 1..(Len(durs) - 1) : RLeq(durs[i], durs[i + 1])
AllCapped(durs) == \A i \in 1..Len(durs) : RLeq(durs[i], max_backoff)

C5_SleepsNonDecreasingEveryPolicy ==
    NonDecreasing(SleepDurations) /\ AllCapped(SleepDurations)

(***************************************************************************)
(* C5 amended: under every retry policy each sleep of a call is at most     *)
(* max_backoff, and under every policy whose backoff_multiplier is at least *)
(* 1 the sleeps of one call are non-decreasing.                             *)
(***************************************************************************)
C5_SleepsCappedAndNonDecreasing ==
    /\ AllCapped(SleepDurations)
    /\ RLeq(Secs(1), backoff_multiplier) => NonDecreasing(SleepDurations)

C5_Witness ==
    /\ SleepDurations = <<Secs(1), Secs(2), Secs(3)>>
    /\ max_backoff = Secs(3)
    /\ RetryDone

(***************************************************************************)
(* C6: when all max_retries + 1 attempts are answered 502 or 503, the call  *)
(* raises TransientAPIError, whose message gives max_retries + 1 attempts   *)
(* and the message of the last attempt's error; it has slept max_retries    *)
(* times and not after the last attempt.                                    *)
(***************************************************************************)
Last(l) == l[Len(l)]

C6_ExhaustedRaisesTransient ==
    /\ RetryDone
    /\ NumAttempts = max_retries + 1
    /\ \A i \in 1..NumAttempts : TransientStatus(AttemptStatuses[i])
    => /\ result.kind = "raise"
       /\ result.exc = "TransientAPIError"
       /\ result.attempts = max_retries + 1
       /\ result.status = response.status
       /\ result.text = OrDefault(response.body, "Service temporarily unavailable")
       /\ NumSleeps = max_retries
       /\ Last(log).ev = "request"

C6_Witness ==
    /\ RetryDone
    /\ max_retries = 2
    /\ AttemptStatuses = <<503, 503, 502>>
    /\ result.exc = "TransientAPIError"
    /\ result.status = 502
    /\ NumSleeps = 2

(***************************************************************************)
(* C7: _handle_response is a total function of status and body onto the     *)
(* outcomes of the table: 200 returns the decoded body, or the empty        *)
(* mapping when the body is empty; 201 returns the decoded body; 400, 401,  *)
(* 404, 429 raise ValidationError, AuthenticationError, NotFoundError,      *)
(* RateLimitError; 500 raises APIError; 502 and 503, and only they, raise   *)
(* TransientAPIError; every other status raises APIError.                   *)
(***************************************************************************)
ClassifiedAsClaimed(resp, out) ==
    /\ out.kind \in {"return", "raise"}
    /\ out.kind = "raise" => out.exc \in TypedErrors
    /\ resp.status = 200 =>
          /\ out.kind = "return"
          /\ resp.body = EmptyBody => out.payload = EmptyMapping
    /\ resp.status = 201 => out.kind = "return"
    /\ resp.status \notin {200, 201} =>
          /\ out.kind = "raise"
          /\ out.exc = IF resp.status \in {502, 503} THEN "TransientAPIError"
                       ELSE ErrorKindOf(resp.status)

C7_HandleResponseTotal ==
    response # NoResponse => ClassifiedAsClaimed(response, HandleResponse(response))

(***************************************************************************)
(* C8: on a client with client id and secret and no pre-generated token,    *)
(* when a first call of _get_access_token has returned a token after its    *)
(* one request to the token endpoint, a second call returns the same token  *)
(* and sends nothing.                                                       *)
(***************************************************************************)
C8_SecondAcquisitionCached ==
    [][/\ ~Truthy(config.api_token)
       /\ Truthy(config.client_id) /\ Truthy(config.client_secret)
       /\ calls = 1 /\ op = "_get_access_token" /\ pc = "idle"
       /\ result.kind = "return"
       /\ calls' = 2 /\ op' = "_get_access_token"
       => /\ Len(log) = 1 /\ IsTokenRequest(log[1]) /\ log[1].status = 200
          /\ token_calls = 1
          /\ pc' = "idle"
          /\ log' = << >>
          /\ token_calls' = 1
          /\ result'.kind = "return"
          /\ Truthy(result.token)
          /\ result'.token = result.token]_vars

C8_Witness ==
    /\ ~Truthy(config.api_token)
    /\ calls = 2 /\ op = "_get_access_token" /\ pc = "idle"
    /\ acquired_by = "direct"
    /\ token_calls = 1
    /\ log = << >>
    /\ result.kind = "return"
    /\ result.token = access_token
    /\ result.token \in Tokens

(***************************************************************************)
(* C9: over the calls made on one client at most one token acquisition      *)
(* succeeds, and once a token is cached no step changes or clears it or     *)
(* sends a request to the token endpoint, whatever the resource requests    *)
(* are answered.                                                            *)
(***************************************************************************)
C9_TokenCachedForGood ==
    [][/\ token_ok' <= 1
       /\ Truthy(access_token) =>
             /\ access_token' = access_token
             /\ token_calls' = token_calls
             /\ token_ok' = token_ok]_vars

\* A resource request of a second call is answered 401 and the token that
\* the first call acquired is still cached.
C9_Witness ==
    /\ calls = 2 /\ pc = "idle" /\ op = "request"
    /\ token_calls = 1 /\ token_ok = 1
    /\ \A i \in 1..Len(log) : ~IsTokenRequest(log[i])
    /\ response.status = 401
    /\ result.exc = "AuthenticationError"
    /\ access_token \in Tokens
    /\ session_auth = Bearer(access_token)

C11_AcquisitionNeedsCredentials ==
    [][/\ pc = "idle" /\ calls' = calls + 1
       /\ op' \in {"_get_access_token", "request"}
       /\ ~Truthy(access_token)
       /\ ~(Truthy(config.client_id) /\ Truthy(config.client_secret))
       => /\ pc' = "idle"
          /\ result'.kind = "raise"
          /\ result'.exc = "AuthenticationError"
          /\ log' = << >>
          /\ token_calls' = token_calls
          /\ access_token' = None
          /\ session_auth' = session_auth]_vars

C11_Witness ==
    /\ pc = "idle" /\ op = "_get_access_token"
    /\ ~Truthy(config.client_id) /\ Truthy(config.client_secret)
    /\ result.exc = "AuthenticationError" /\ result.line = 102
    /\ log = << >>
    /\ token_calls = 0
    /\ access_token = None

TokenCallFailed == result.kind = "raise" /\ result.line \in {126, 130}

C13_FailedAcquisitionLeavesNoToken ==
    [][/\ (pc = "token" /\ Last(log').status \notin {0, 200}
           => /\ pc' = "idle"
              /\ result'.kind = "raise"
              /\ result'.exc = "AuthenticationError"
              /\ log' = <<RequestEvent(TokenUrl, Last(log').auth, Last(log').status)>>
              /\ token_calls' = token_calls + 1
              /\ ~Truthy(access_token')
              /\ access_token' = access_token
              /\ session_auth' = session_auth)
       /\ (pc = "idle" /\ TokenCallFailed /\ calls' = calls + 1
           /\ op' \in {"_get_access_token", "request"}
           => pc' = "token")
       /\ (pc = "token" => token_calls' = token_calls + 1 /\ IsTokenRequest(Last(log')))]_vars

\* A second acquisition was answered 500 after a first one had failed.
C13_Witness ==
    /\ pc = "idle" /\ calls = 2
    /\ token_calls = 2 /\ token_ok = 0
    /\ TokenCallFailed /\ result.line = 130
    /\ result.exc = "AuthenticationError"
    /\ Len(log) = 1 /\ log[1].status = 500
    /\ access_token = None /\ session_auth = NoAuth

(***************************************************************************)
(* C14: in a get, post or put no request goes to a resource URL while no    *)
(* token is cached; and when the token acquisition of the operation fails,  *)
(* the operation raises AuthenticationError and has sent no resource        *)
(* request.                                                                 *)
(***************************************************************************)
C14_NoResourceRequestBeforeToken ==
    /\ op = "request" /\ NumAttempts > 0 => Truthy(access_token)
    /\ op = "request" /\ pc = "idle" /\ ~Truthy(access_token)
       => /\ result.kind = "raise"
          /\ result.exc = "AuthenticationError"
          /\ NumAttempts = 0

(***************************************************************************)
(* C15: no step of a post_external sends a request to the token endpoint    *)
(* or changes the cached token or the session's Authorization header, and   *)
(* every request the call sends, retries included, carries the Basic        *)
(* authorization of client id and secret.                                   *)
(***************************************************************************)
C15_PostExternalBasicOnly ==
    [][op' = "post_external"
       => /\ access_token' = access_token
          /\ session_auth' = session_auth
          /\ token_calls' = token_calls
          /\ \A i \in 1..Len(log') :
                /\ ~IsTokenRequest(log'[i])
                /\ IsResourceRequest(log'[i]) =>
                      log'[i].auth = [scheme |-> "Basic",
                                      cred |-> B64(config.client_id \o ":" \o config.client_secret)]]_vars

\* A post_external on a client with a cached token was retried and returned.
C15_Witness ==
    /\ op = "post_external" /\ pc = "idle"
    /\ Truthy(access_token)
    /\ session_auth = [scheme |-> "Bearer", cred |-> access_token]
    /\ NumAttempts >= 2 /\ NumSleeps >= 1
    /\ result.kind = "return"
    /\ \A i \in 1..Len(log) : IsResourceRequest(log[i]) => log[i].auth.scheme = "Basic"

(***************************************************************************)
(* C16: every call of get, post, put, post_external or _get_access_token    *)
(* that fails raises one of AuthenticationError, NotFoundError,             *)
(* RateLimitError, ValidationError, TransientAPIError, APIError; a          *)
(* transport failure and an undecodable or incomplete body are among the    *)
(* failures.                                                                *)
(***************************************************************************)
C16_FailuresAreTyped ==
    pc = "idle" /\ result.kind = "raise" => result.exc \in TypedErrors

(***************************************************************************)
(* C17: when the first j-1 answers are 502 or 503, j <= max_retries + 1,    *)
(* and the j-th answer is 200 or 201, _request_with_retry returns the       *)
(* decoded body of the j-th answer after exactly j attempts and j-1 sleeps, *)
(* the j-th attempt being the last event of the call.                       *)
(***************************************************************************)
SucceededAtAttempt(j) ==
    /\ j >= 1 /\ j <= max_retries + 1
    /\ NumAttempts >= j
    /\ \A i \in 1..(j - 1) : TransientStatus(AttemptStatuses[i])
    /\ AttemptStatuses[j] \in {200, 201}

C17_SuccessAfterTransients ==
    \A j \in 1..(MaxRetriesBound + 2) :
        SucceededAtAttempt(j)
        => /\ pc = "idle"
           /\ NumAttempts = j
           /\ NumSleeps = j - 1
           /\ IsResourceRequest(Last(log))
           /\ response.status = AttemptStatuses[j]
           /\ result.kind = "return"
           /\ result.payload = JsonDecode(response.body)

(***************************************************************************)
(* C19: no step of _request_with_retry, whatever its branch, changes the    *)
(* cached token or the session's Authorization header; a step that changes  *)
(* either is the token acquisition, and it comes before the first attempt   *)
(* of the call.                                                             *)
(***************************************************************************)
C19_RetryLeavesSessionAlone ==
    [][/\ pc = "attempt" =>
             /\ access_token' = access_token
             /\ session_auth' = session_auth
       /\ access_token' # access_token \/ session_auth' # session_auth =>
             /\ pc = "token"
             /\ IsTokenRequest(Last(log'))
             /\ NumAttempts' = 0]_vars

\* A get, post or put that acquired its token was answered 502 or 503, slept
\* and was answered again, and the token is the one acquired.
C19_Witness ==
    /\ pc = "idle" /\ op = "request" /\ calls = 1
    /\ acquired_by = "_ensure_authenticated" /\ token_calls = 1
    /\ NumAttempts >= 2 /\ NumSleeps >= 1
    /\ IsTokenRequest(log[1])
    /\ access_token \in Tokens
    /\ \A i \in 1..NumAttempts :
          ResourceRequests(log)[i].auth = [scheme |-> "Bearer", cred |-> access_token]

(***************************************************************************)
(* The configuration loader (config.py) and a script that loads its         *)
(* configuration from the environment, constructs a client with the         *)
(* default retry policy and calls it.                                       *)
(***************************************************************************)
\* What the environment holds for each variable: unset, set to the empty
\* string, or set to a value.
Environs ==
    [NOBL9_CLIENT_ID : {None, "", "id"}, NOBL9_CLIENT_SECRET : {None, "", "secret"},
     NOBL9_ORG : {None, "", "org"}, NOBL9_BASE_URL : {None, "https://nobl9.test"},
     NOBL9_API_TOKEN : {None, "", "tok0"}]

\* os.getenv(name, default)
Getenv(value, default) == IF value = None THEN default ELSE value

\* Config.__init__
ConfigOf(env) ==
    [client_id |-> Getenv(env.NOBL9_CLIENT_ID, None),
     client_secret |-> Getenv(env.NOBL9_CLIENT_SECRET, None),
     organization |-> Getenv(env.NOBL9_ORG, None),
     base_url |-> Getenv(env.NOBL9_BASE_URL, DEFAULT_BASE_URL),
     api_token |-> Getenv(env.NOBL9_API_TOKEN, None)]

\* Faulty variant: the client id alone counts as client credentials.
ValidateIdOnly(c) ==
    IF ~Truthy(c.api_token) /\ ~Truthy(c.client_id)
    THEN Raise("ValueError", 0, "", 32)
    ELSE IF ~Truthy(c.organization)
    THEN Raise("ValueError", 0, "", 38)
    ELSE [NoOutcome EXCEPT !.kind = "return", !.line = 41]

\* Config.validate
Validate(c) ==
    IF ~Truthy(c.api_token) /\ ~(Truthy(c.client_id) /\ Truthy(c.client_secret))
    THEN Raise("ValueError", 0, "", 32)
    ELSE IF ~Truthy(c.organization)
    THEN Raise("ValueError", 0, "", 38)
    ELSE [NoOutcome EXCEPT !.kind = "return", !.line = 41]

\* No client has been constructed.
ClientUnconstructed ==
    /\ config = NoConfig
    /\ max_retries = DefaultMaxRetries
    /\ initial_backoff = Secs(1)
    /\ max_backoff = Secs(DefaultMaxBackoff)
    /\ backoff_multiplier = Secs(2)
    /\ access_token = None
    /\ session_auth = NoAuth
    /\ pc = "unconstructed"
    /\ op = "none"
    /\ method = "none"
    /\ request_auth = NoAuth
    /\ attempt = 0
    /\ backoff = NoBackoff
    /\ last_exception = NoOutcome
    /\ response = NoResponse
    /\ log = << >>
    /\ result = NoOutcome
    /\ calls = 0
    /\ token_calls = 0
    /\ token_ok = 0
    /\ acquired_by = "none"

ScriptInit ==
    /\ environ \in Environs
    /\ loaded = NoConfig
    /\ loaded_by = "none"
    /\ loader_result = NoOutcome
    /\ ClientUnconstructed
    /\ ReporterUnused
    /\ ExamplesUnused

\* config = get_config()
GetConfig ==
    /\ loaded_by = "none"
    /\ LET c == ConfigOf(environ)
           v == Validate(c)
       IN /\ loaded_by' = "get_config"
          /\ IF v.kind = "raise"
             THEN /\ loader_result' = v
                  /\ loaded' = NoConfig
             ELSE /\ loader_result' = [NoOutcome EXCEPT !.kind = "return", !.line = 55]
                  /\ loaded' = c
    /\ UNCHANGED <<environ, clientVars, reporterVars, exampleVars>>

\* config = Config(), as the scripts do that do not validate
NewConfig ==
    /\ loaded_by = "none"
    /\ loaded_by' = "Config"
    /\ loaded' = ConfigOf(environ)
    /\ loader_result' = [NoOutcome EXCEPT !.kind = "return", !.line = 22]
    /\ UNCHANGED <<environ, clientVars, reporterVars, exampleVars>>

\* client = StatusPageClient(config)
Construct ==
    /\ pc = "unconstructed"
    /\ loaded # NoConfig
    /\ config' = loaded
    /\ access_token' = IF Truthy(loaded.api_token) THEN loaded.api_token ELSE None
    /\ session_auth' = IF Truthy(loaded.api_token) THEN Bearer(loaded.api_token) ELSE NoAuth
    /\ pc' = "idle"
    /\ UNCHANGED <<policy, op, locals, response, log, result, calls, counters>>
    /\ UNCHANGED elsewhere

ScriptNext ==
    \/ GetConfig
    \/ NewConfig
    \/ Construct
    \/ Get
    \/ Post
    \/ Put
    \/ TokenResponse
    \/ PostExternal
    \/ Attempt

ScriptSpec == ScriptInit /\ [][ScriptNext]_vars

(***************************************************************************)
(* C18: get_config on an environment with neither an api token nor both     *)
(* client id and client secret, or without an organization, fails in        *)
(* Config.validate with ValueError and yields no configuration; a           *)
(* configuration that get_config returned has an auth method and an         *)
(* organization; and a client whose configuration has no auth method,       *)
(* however it was loaded, sends no request.                                 *)
(***************************************************************************)
AuthMethodPresent(c) ==
    (c.api_token # None /\ c.api_token # "")
        \/ (c.client_id # None /\ c.client_id # "" /\ c.client_secret # None /\ c.client_secret # "")

OrganizationPresent(c) == c.organization # None /\ c.organization # ""

ReporterMaxRetriesBound == 3

ExternalUrl == "/api/dashboards/v1/status-page/issues/external"

\* 200 and 500 stand for the statuses the loop names no branch for.
ReporterStatuses == {200, 201, 400, 404, 429, 500}

\* requests.post raised instead of answering.
Timeout == [status |-> 0, body |-> "Timeout"]
ConnectionFailed == [status |-> 0, body |-> "ConnectionError"]
OtherRequestException == [status |-> 0, body |-> "RequestException"]

ReporterResponses ==
    {[status |-> 201, body |-> b] : b \in {JsonBody, HtmlBody}}
        \cup {[status |-> s, body |-> EmptyBody] : s \in ReporterStatuses \ {201}}
        \cup {Timeout, ConnectionFailed, OtherRequestException}

PostEvent(resp) ==
    [ev |-> "request", url |-> ExternalUrl, response |-> resp, dur |-> Secs(0)]
ReporterSleepEvent(d) ==
    [ev |-> "sleep", url |-> "", response |-> NoResponse, dur |-> d]

\* The branch sets last_error and goes on to the next attempt.
Retry(text, status, line) ==
    [NoOutcome EXCEPT !.kind = "retry", !.text = text, !.status = status, !.line = line]

\* The try statement of one attempt: what requests.post yielded, by branch.
ReporterOutcome(resp) ==
    IF resp = Timeout THEN Retry("Request timeout", 0, 211)
    ELSE IF resp = ConnectionFailed THEN Retry("Connection error: ", 0, 218)
    ELSE IF resp = OtherRequestException THEN Raise("RequestException", 0, "", 167)
    ELSE IF resp.status = 201 THEN Json(resp.body, 177)
    ELSE IF resp.status = 400 THEN Raise("ValueError", 400, resp.body, 182)
    ELSE IF resp.status = 404 THEN Raise("ValueError", 404, "", 186)
    ELSE IF resp.status = 429 THEN Retry("Rate limit exceeded", 429, 194)
    ELSE Retry("HTTP " \o ToString(resp.status) \o ": " \o resp.body, resp.status, 203)

\* main: max_retries = 1 if args.no_retry else args.max_retries, and the
\* reporter constructed with it.
ReporterInit ==
    /\ no_retry \in BOOLEAN
    /\ \E max_retries_arg \in 0..ReporterMaxRetriesBound :
         reporter_max_retries = IF no_retry THEN 1 ELSE max_retries_arg
    /\ reporter_initial_backoff \in {Secs(1), Half}
    /\ reporter_pc = "idle"
    /\ reporter_attempt = 0
    /\ reporter_backoff = NoBackoff
    /\ last_error = None
    /\ reporter_log = << >>
    /\ reporter_result = NoOutcome
    /\ ClientUnconstructed
    /\ LoaderUnused
    /\ ExamplesUnused

\* report_issue ends: control leaves the reporter.
ReporterLeave(out) ==
    /\ reporter_pc' = "done"
    /\ reporter_result' = out
    /\ reporter_attempt' = 0
    /\ reporter_backoff' = NoBackoff
    /\ last_error' = None

\* The raise after the loop.
ReporterExhausted(err) ==
    [Raise("Exception", 0, err, 224) EXCEPT !.attempts = reporter_max_retries]

\* range(self.max_retries)
ReporterLoopBound == reporter_max_retries

StatusChoices == {"operational", "degradedPerformance", "majorOutage"}

\* report_issue up to the first requests.post of _request_with_retry.
ReportIssue ==
    /\ reporter_pc = "idle"
    /\ reporter_log' = << >>
    /\ \E component_name \in {"", "api-gateway"}, status \in {None, "majorOutage", "down"} :
         IF component_name = ""
         THEN ReporterLeave(Raise("ValueError", 0, "component_name is required", 115))
         ELSE IF Truthy(status) /\ status \notin StatusChoices
         THEN ReporterLeave(Raise("ValueError", 0, "Invalid status", 118))
         ELSE IF 0 < ReporterLoopBound
         THEN /\ reporter_pc' = "attempt"
              /\ reporter_attempt' = 0
              /\ reporter_backoff' = reporter_initial_backoff
              /\ last_error' = None
              /\ reporter_result' = NoOutcome
         ELSE ReporterLeave(ReporterExhausted(None))
    /\ UNCHANGED <<no_retry, reporter_max_retries, reporter_initial_backoff>>
    /\ UNCHANGED <<clientVars, loaderVars, exampleVars>>

\* if attempt < self.max_retries - 1
ReporterSleeps(i) == i < reporter_max_retries - 1

\* One iteration of the loop of ExternalIssueReporter._request_with_retry.
ReporterAttempt ==
    /\ reporter_pc = "attempt"
    /\ \E resp \in ReporterResponses :
         LET out == ReporterOutcome(resp)
             sent == PostEvent(resp)
         IN IF out.kind # "retry"
            THEN /\ reporter_log' = Append(reporter_log, sent)
                 /\ ReporterLeave(out)
            ELSE IF ReporterSleeps(reporter_attempt) /\ ~RLeq(Secs(0), reporter_backoff)
            THEN \* time.sleep rejects a negative duration
                 /\ reporter_log' = Append(reporter_log, sent)
                 /\ ReporterLeave(Raise("ValueError", 0, "", out.line + 2))
            ELSE /\ reporter_log' =
                       IF ReporterSleeps(reporter_attempt)
                       THEN reporter_log \o <<sent, ReporterSleepEvent(reporter_backoff)>>
                       ELSE Append(reporter_log, sent)
                 /\ IF reporter_attempt + 1 < ReporterLoopBound
                    THEN /\ reporter_attempt' = reporter_attempt + 1
                         /\ reporter_backoff' =
                               IF ReporterSleeps(reporter_attempt)
                               THEN FloatMul(reporter_backoff, Secs(2))
                               ELSE reporter_backoff
                         /\ last_error' = out.text
                         /\ UNCHANGED <<reporter_pc, reporter_result>>
                    ELSE ReporterLeave(ReporterExhausted(out.text))
    /\ UNCHANGED <<no_retry, reporter_max_retries, reporter_initial_backoff>>
    /\ UNCHANGED <<clientVars, loaderVars, exampleVars>>

ReporterNext ==
    \/ ReportIssue
    \/ ReporterAttempt

ReporterSpec == ReporterInit /\ [][ReporterNext]_vars

(***************************************************************************)
(* C20: with --no-retry the reporter sends exactly one POST and fails on    *)
(* the first error.  In general _request_with_retry of the reporter sends   *)
(* at most max_retries POSTs; a 201 ends the call with a returned payload;  *)
(* a 400 or 404 ends it with ValueError, neither followed by a sleep or a   *)
(* POST; a 429, another status, a timeout or a connection error on an       *)
(* attempt before the last is followed by a sleep of initial_backoff        *)
(* doubled once per earlier attempt and by another POST; on the last        *)
(* attempt it is followed by no sleep and the call raises, reporting        *)
(* max_retries attempts.                                                    *)
(***************************************************************************)
ReporterPosts == SelectSeq(reporter_log, LAMBDA e : e.ev = "request")
ReporterSleepCount == Len(SelectSeq(reporter_log, LAMBDA e : e.ev = "sleep"))

RECURSIVE Pow2(_)
Pow2(n) == IF n = 0 THEN 1 ELSE 2 * Pow2(n - 1)

\* 429, other statuses, timeouts and connection errors.
RetriedAnswer(resp) ==
    \/ resp.status = 0 /\ resp.body \in {"Timeout", "ConnectionError"}
    \/ resp.status \notin {0, 201, 400, 404}

\* report_issue got as far as _request_with_retry and has ended.
ReporterDone == reporter_pc = "done" /\ reporter_result.line \notin {115, 118}

C20_ReporterRetryPolicy ==
    LET posts == ReporterPosts
        n == Len(posts)
        N == reporter_max_retries
        EndsCall(i) ==
            /\ i = n
            /\ Last(reporter_log) = posts[i]
            /\ reporter_pc = "done"
    IN /\ n <= N
       /\ no_retry =>
             /\ N = 1
             /\ ReporterSleepCount = 0
             /\ ReporterDone =>
                   /\ n = 1
                   /\ posts[1].response.status # 201 => reporter_result.kind = "raise"
       /\ ReporterDone /\ n = 0 => reporter_result.kind = "raise"
       /\ \A i \in 1..n :
             LET resp == posts[i].response
             IN /\ resp.status = 201 =>
                      EndsCall(i) /\ reporter_result.kind = "return"
                /\ resp.status \in {400, 404} =>
                      /\ EndsCall(i)
                      /\ reporter_result.kind = "raise"
                      /\ reporter_result.exc = "ValueError"
                /\ RetriedAnswer(resp) /\ i < N =>
                      /\ Len(reporter_log) >= 2 * i
                      /\ reporter_log[2 * i] =
                            [ev |-> "sleep", url |-> "", response |-> NoResponse,
                             dur |-> Norm(<<reporter_initial_backoff[1] * Pow2(i - 1),
                                            reporter_initial_backoff[2]>>)]
                      /\ reporter_pc = "done" => n > i
                /\ RetriedAnswer(resp) /\ i = N =>
                      /\ EndsCall(i)
                      /\ reporter_result.kind = "raise"
                      /\ reporter_result.exc = "Exception"
                      /\ reporter_result.attempts = N

(***************************************************************************)
(* C22: in one call of _request_with_retry the n-th sleep, the one before   *)
(* attempt n+1, lasts min(initial_backoff * backoff_multiplier^(n-1),       *)
(* max_backoff); the running backoff is the uncapped product                *)
(* initial_backoff * backoff_multiplier^i before attempt i+1.               *)
(***************************************************************************)
\* b * m^k on the rationals.
Scaled(b, m, k) == Norm(<<b[1] * m[1]^k, b[2] * m[2]^k>>)

C22_SleepIsCappedPower ==
    /\ \A n \in 1..NumSleeps :
          LET grown == Scaled(initial_backoff, backoff_multiplier, n - 1)
          IN /\ n <= max_retries
             /\ SleepDurations[n] = IF RLeq(grown, max_backoff) THEN grown ELSE max_backoff
    /\ pc = "attempt" =>
          backoff = Scaled(initial_backoff, backoff_multiplier, attempt)

\* The cap of 3 seconds holds the third sleep at 3 while the running
\* backoff has grown to 8.
C22_Witness ==
    /\ pc = "attempt" /\ attempt = 3
    /\ initial_backoff = Secs(1) /\ backoff_multiplier = Secs(2) /\ max_backoff = Secs(3)
    /\ SleepDurations = <<Secs(1), Secs(2), Secs(3)>>
    /\ backoff = Secs(8)

(***************************************************************************)
(* C23: when an attempt that follows one or more 502/503 answers is         *)
(* answered with a non-transient error status, _request_with_retry raises   *)
(* the error of that status, not a TransientAPIError and not the count of   *)
(* attempts, and the attempt is the last event of the call: no sleep and    *)
(* no attempt follows it.                                                   *)
(***************************************************************************)
C23_NonTransientAfterTransients ==
    LET n == NumAttempts
    IN /\ n >= 2
       /\ \A i \in 1..(n - 1) : AttemptStatuses[i] \in {502, 503}
       /\ AttemptStatuses[n] \notin {0, 200, 201, 502, 503}
       => /\ pc = "idle"
          /\ result.kind = "raise"
          /\ result.exc = ErrorKindOf(AttemptStatuses[n])
          /\ result.exc # "TransientAPIError"
          /\ result.attempts = 0
          /\ result.status = HandleResponse(response).status
          /\ result.text = HandleResponse(response).text
          /\ response.status = AttemptStatuses[n]
          /\ IsResourceRequest(Last(log))
          /\ NumSleeps = n - 1

C23_Witness ==
    /\ pc = "idle"
    /\ AttemptStatuses = <<503, 502, 429>>
    /\ NumSleeps = 2
    /\ result.exc = "RateLimitError" /\ result.line = 191

(***************************************************************************)
(* C24: no step changes max_retries, initial_backoff, max_backoff or        *)
(* backoff_multiplier of a client, and every call of _request_with_retry    *)
(* enters its loop with the backoff at initial_backoff, so that its first   *)
(* sleep is min(initial_backoff, max_backoff) whatever the calls before it  *)
(* did.                                                                     *)
(***************************************************************************)
C24_PolicyFixedBackoffRestarts ==
    [][/\ max_retries' = max_retries
       /\ initial_backoff' = initial_backoff
       /\ max_backoff' = max_backoff
       /\ backoff_multiplier' = backoff_multiplier
       /\ pc # "attempt" /\ pc' = "attempt" =>
             /\ backoff' = initial_backoff
             /\ attempt' = 0
             /\ NumSleeps' = 0 /\ NumAttempts' = 0
       /\ pc = "attempt" /\ attempt = 0 /\ NumSleeps' = 1 =>
             SleepDurations'[1] =
                IF RLeq(initial_backoff, max_backoff) THEN initial_backoff ELSE max_backoff]_vars

\* The second call on a client sleeps its first sleep, of the initial
\* backoff.
C24_Witness ==
    /\ calls = 2 /\ pc = "attempt" /\ attempt = 1
    /\ initial_backoff = Secs(1) /\ backoff_multiplier = Secs(2)
    /\ SleepDurations = <<Secs(1)>>
    /\ backoff = Secs(2)

(***************************************************************************)
(* C25: no call ends at the statements after the loop of                    *)
(* _request_with_retry (the re-raise of last_exception and the APIError     *)
(* "Request failed with unknown error"); a call that reached the loop ends  *)
(* inside it, by the return or by one of its raises, after at least one     *)
(* attempt.                                                                 *)
(***************************************************************************)
C25_AfterLoopUnreached ==
    /\ result.line \notin {195, 196}
    /\ result.text # "Request failed with unknown error"
    /\ RetryDone =>
          /\ result.line \in {161, 162, 168, 184, 191}
          /\ NumAttempts >= 1

\* The loop of a single iteration is left by the raise of its last attempt.
C25_Witness ==
    /\ RetryDone
    /\ max_retries = 0
    /\ NumAttempts = 1 /\ NumSleeps = 0
    /\ result.line = 168
    /\ result.attempts = 1

(***************************************************************************)
(* C26: a client constructed with a pre-generated api token never calls the *)
(* token endpoint, in any sequence of get, post and put calls and with or   *)
(* without a client id and secret in its configuration; every resource      *)
(* request of get, post and put carries "Bearer <api token>", the first one *)
(* included.                                                                *)
(***************************************************************************)
C26_ApiTokenNeverAcquires ==
    config.api_token \notin {None, ""} =>
       /\ token_calls = 0
       /\ pc # "token"
       /\ acquired_by = "none"
       /\ access_token = config.api_token
       /\ \A i \in 1..Len(log) :
             /\ log[i].url # "/api/accessToken"
             /\ op = "request" /\ log[i].ev = "request" =>
                   log[i].auth = [scheme |-> "Bearer", cred |-> config.api_token]

\* The second call of a client that has an api token, a client id and a
\* secret: its first request was answered 503 and repeated.
C26_Witness ==
    /\ config.api_token = "tok0"
    /\ config.client_id = "id" /\ config.client_secret = "secret"
    /\ calls = 2 /\ op = "request" /\ pc = "idle"
    /\ result.kind = "return"
    /\ NumAttempts = 2
    /\ log[1].status = 503
    /\ log[1].auth = [scheme |-> "Bearer", cred |-> "tok0"]
    /\ token_calls = 0

(***************************************************************************)
(* create_external_issue.py: create_external_issue_with_retry, a retry loop  *)
(* around create_external_issue, which is one client.post_external call.    *)
(* The client is the default StatusPageClient that main constructs; the     *)
(* parameter max_retries is drawn from 0..IssueMaxRetriesBound, its default *)
(* among them.                                                              *)
(***************************************************************************)
IssueMaxRetriesBound == 3

\* max_retries: int = 3
DefaultIssueMaxRetries == 3

\* One call of create_external_issue.
IssueCallEvent == [ev |-> "call", dur |-> Secs(0)]
\* time.sleep(backoff) in create_external_issue_with_retry
IssueSleepEvent(d) ==
    [ev |-> "sleep", dur |-> d]

IssueInit ==
    /\ config \in Configs
    /\ max_retries = DefaultMaxRetries
    /\ initial_backoff = Secs(1)
    /\ max_backoff = Secs(DefaultMaxBackoff)
    /\ backoff_multiplier = Secs(2)
    /\ access_token = IF Truthy(config.api_token) THEN config.api_token ELSE None
    /\ session_auth = IF Truthy(config.api_token) THEN Bearer(config.api_token) ELSE NoAuth
    /\ pc = "idle"
    /\ op = "none"
    /\ method = "none"
    /\ request_auth = NoAuth
    /\ attempt = 0
    /\ backoff = NoBackoff
    /\ last_exception = NoOutcome
    /\ response = NoResponse
    /\ log = << >>
    /\ result = NoOutcome
    /\ calls = 0
    /\ token_calls = 0
    /\ token_ok = 0
    /\ acquired_by = "none"
    /\ issue_max_retries \in 0..IssueMaxRetriesBound
    /\ issue_pc = "loop"
    /\ issue_attempt = 0
    /\ issue_backoff = Secs(1)
    /\ issue_last_error = NoOutcome
    /\ issue_log = << >>
    /\ issue_posts = 0
    /\ issue_result = NoOutcome
    /\ LoaderUnused
    /\ ReporterUnused
    /\ MonitorUnused
    /\ WorkflowUnused
    /\ GateUnused

\* range(max_retries)
IssueLoopBound == issue_max_retries

\* Faulty variant: every attempt is taken for one that has a successor.
IssueLastAttemptNever(i) == FALSE

\* not (attempt < max_retries - 1)
IssueLastAttempt(i) == ~(i < issue_max_retries - 1)

\* isinstance(e, NotFoundError)
IssueStops(out) == out.exc = "NotFoundError"

\* except RateLimitError, except APIError: the classes the two clauses catch.
IssueCaught(out) == out.kind = "raise" /\ out.exc \in TypedErrors

\* create_external_issue_with_retry ends.
IssueLeave(out) ==
    /\ issue_pc' = "done"
    /\ issue_result' = out
    /\ UNCHANGED <<issue_attempt, issue_backoff>>

\* One iteration up to the request: create_external_issue calls
\* client.post_external.
IssueCall ==
    /\ issue_pc = "loop"
    /\ calls = issue_attempt
    /\ issue_attempt < IssueLoopBound
    /\ PostExternal

\* The rest of the iteration, once post_external has ended: the return, or
\* one of the except clauses.
IssueHandle ==
    /\ issue_pc = "loop"
    /\ pc = "idle"
    /\ calls = issue_attempt + 1
    /\ issue_posts' = issue_posts + NumAttempts
    /\ LET called == Append(issue_log, IssueCallEvent)
       IN IF result.kind = "return"
          THEN /\ issue_log' = called
               /\ IssueLeave([result EXCEPT !.line = 151])
               /\ UNCHANGED issue_last_error
          ELSE IF ~IssueCaught(result)
          THEN /\ issue_log' = called
               /\ IssueLeave([result EXCEPT !.line = 151])
               /\ UNCHANGED issue_last_error
          ELSE IF result.exc # "RateLimitError" /\ IssueStops(result)
          THEN /\ issue_log' = called
               /\ IssueLeave([result EXCEPT !.line = 171])
               /\ UNCHANGED issue_last_error
          ELSE /\ issue_last_error' = result
               /\ IF IssueLastAttempt(issue_attempt)
                  THEN /\ issue_log' = called
                       /\ IssueLeave([result EXCEPT !.line =
                                         IF result.exc = "RateLimitError" THEN 167 ELSE 178])
                  ELSE /\ issue_log' = Append(called, IssueSleepEvent(issue_backoff))
                       /\ issue_backoff' = FloatMul(issue_backoff, Secs(2))
                       /\ issue_attempt' = issue_attempt + 1
                       /\ UNCHANGED <<issue_pc, issue_result>>
    /\ UNCHANGED <<issue_max_retries, clientVars, loaderVars, reporterVars,
                   monitorVars, workflowVars, gateVars>>

\* The raise after the loop.
IssueRunOut ==
    /\ issue_pc = "loop"
    /\ pc = "idle"
    /\ calls = issue_attempt
    /\ ~(issue_attempt < IssueLoopBound)
    /\ UNCHANGED <<issue_log, issue_posts>>
    /\ IssueLeave(Raise("APIError", 0, "Failed after", 180))
    /\ UNCHANGED <<issue_max_retries, issue_last_error, clientVars, loaderVars,
                   reporterVars, monitorVars, workflowVars, gateVars>>

IssueNext ==
    \/ IssueCall
    \/ Attempt
    \/ IssueHandle
    \/ IssueRunOut

IssueSpec == IssueInit /\ [][IssueNext]_vars

\* What create_external_issue_with_retry did, read off its log.
IssueCalls == Len(SelectSeq(issue_log, LAMBDA e : e.ev = "call"))
IssueSleeps == SelectSeq(issue_log, LAMBDA e : e.ev = "sleep")
\* The call of create_external_issue that was handled last raised.
IssueFailedLast ==
    /\ IssueCalls >= 1 /\ IssueCalls = calls
    /\ pc = "idle" /\ result.kind = "raise"

C27_NestedRetries ==
    /\ issue_posts <= issue_max_retries * 4
    /\ issue_max_retries = 3 => issue_posts <= 12
    /\ IssueFailedLast /\ result.exc = "TransientAPIError" => NumAttempts = 4
    /\ /\ issue_pc = "done" /\ issue_result.kind = "raise"
       /\ IssueCalls < issue_max_retries
       => issue_result.exc = "NotFoundError"
    /\ /\ IssueFailedLast /\ calls < issue_max_retries
       /\ result.exc \in {"AuthenticationError", "ValidationError", "RateLimitError",
                          "TransientAPIError", "APIError"}
       => /\ issue_pc = "loop"
          /\ issue_attempt = calls
          /\ Last(issue_log).ev = "sleep"

(***************************************************************************)
(* monitoring_integration.py: main checks the severity, constructs a        *)
(* default client, and simulate_monitoring_alert builds the payload and     *)
(* posts it with client.post_external.                                      *)
(***************************************************************************)
\* sys.argv[2] as typed: the three severities in lower case and otherwise,
\* and a word that is none of them.
SeverityArgs ==
    {"warning", "Warning", "critical", "CRITICAL", "resolved", "Resolved", "info"}

\* sys.argv[3], or its default: the two known systems and an unknown one.
MonitoringSystemArgs == {"prometheus", "datadog", "nagios"}

\* ALERT_EXAMPLES
ALERT_EXAMPLES == {"prometheus", "datadog"}

\* str.lower() on the words of SeverityArgs
Lower(s) ==
    CASE s = "Warning" -> "warning"
      [] s = "CRITICAL" -> "critical"
      [] s = "Resolved" -> "resolved"
      [] OTHER -> s

map_severity_to_status(severity_arg) ==
    CASE Lower(severity_arg) = "warning" -> "degradedPerformance"
      [] Lower(severity_arg) = "critical" -> "majorOutage"
      [] Lower(severity_arg) = "resolved" -> "operational"
      [] OTHER -> "degradedPerformance"

\* issue_payload of simulate_monitoring_alert, as far as requestedBy and
\* statusChange go.
IssuePayload(severity_arg, system) ==
    LET component_status == map_severity_to_status(severity_arg)
    IN [requestedBy |-> system,
        statusChange |->
            IF component_status # "operational" \/ severity_arg = "resolved"
            THEN [present |-> TRUE, status |-> component_status,
                  propagateUp |-> (severity_arg = "critical")]
            ELSE NoStatusChange]

MonitorInit ==
    /\ config \in Configs
    /\ max_retries = DefaultMaxRetries
    /\ initial_backoff = Secs(1)
    /\ max_backoff = Secs(DefaultMaxBackoff)
    /\ backoff_multiplier = Secs(2)
    /\ access_token = IF Truthy(config.api_token) THEN config.api_token ELSE None
    /\ session_auth = IF Truthy(config.api_token) THEN Bearer(config.api_token) ELSE NoAuth
    /\ pc = "idle"
    /\ op = "none"
    /\ method = "none"
    /\ request_auth = NoAuth
    /\ attempt = 0
    /\ backoff = NoBackoff
    /\ last_exception = NoOutcome
    /\ response = NoResponse
    /\ log = << >>
    /\ result = NoOutcome
    /\ calls = 0
    /\ token_calls = 0
    /\ token_ok = 0
    /\ acquired_by = "none"
    /\ alert_severity \in SeverityArgs
    /\ monitoring_system \in MonitoringSystemArgs
    /\ monitor_pc = "main"
    /\ issue_payload = NoPayload
    /\ monitor_exit = NotExited
    /\ LoaderUnused
    /\ ReporterUnused
    /\ IssueUnused
    /\ WorkflowUnused
    /\ GateUnused

\* main up to the call of simulate_monitoring_alert.
MonitorMain ==
    /\ monitor_pc = "main"
    /\ IF Lower(alert_severity) \notin {"warning", "critical", "resolved"}
       THEN /\ monitor_pc' = "done"
            /\ monitor_exit' = 1
            /\ UNCHANGED monitoring_system
       ELSE /\ monitor_pc' = "simulate"
            /\ monitoring_system' =
                  IF monitoring_system \notin ALERT_EXAMPLES THEN "prometheus"
                  ELSE monitoring_system
            /\ UNCHANGED monitor_exit
    /\ UNCHANGED <<alert_severity, issue_payload, clientVars, loaderVars,
                   reporterVars, issueVars, workflowVars, gateVars>>

\* simulate_monitoring_alert up to its request.
BuildPayload ==
    /\ monitor_pc = "simulate"
    /\ issue_payload' = IssuePayload(alert_severity, monitoring_system)
    /\ monitor_pc' = "post"
    /\ UNCHANGED <<alert_severity, monitoring_system, monitor_exit, clientVars,
                   loaderVars, reporterVars, issueVars, workflowVars, gateVars>>

\* result = client.post_external("/status-page/issues/external", issue_payload)
MonitorPost ==
    /\ monitor_pc = "post"
    /\ calls = 0
    /\ PostExternal

\* The call has ended: the summary is printed, or main's except clauses
\* exit with 1; an exception they do not catch ends the process with 1 too.
MonitorFinish ==
    /\ monitor_pc = "post"
    /\ pc = "idle"
    /\ calls = 1
    /\ monitor_pc' = "done"
    /\ monitor_exit' = IF result.kind = "return" THEN 0 ELSE 1
    /\ UNCHANGED <<alert_severity, monitoring_system, issue_payload, clientVars,
                   loaderVars, reporterVars, issueVars, workflowVars, gateVars>>

MonitorNext ==
    \/ MonitorMain
    \/ BuildPayload
    \/ MonitorPost
    \/ Attempt
    \/ MonitorFinish

MonitorSpec == MonitorInit /\ [][MonitorNext]_vars

(***************************************************************************)
(* C28: for every severity main accepts, in whatever case it is typed, the  *)
(* payload has a statusChange; its status is degradedPerformance for        *)
(* warning, majorOutage for critical and operational for resolved, and its  *)
(* propagateUp is true for critical and false for the other two.            *)
(***************************************************************************)
C28_SeverityToStatusChange ==
    issue_payload.requestedBy # "" =>
       /\ alert_severity \in {"warning", "Warning", "critical", "CRITICAL",
                              "resolved", "Resolved"}
       /\ issue_payload.statusChange.present
       /\ issue_payload.statusChange.status =
             CASE alert_severity \in {"warning", "Warning"} -> "degradedPerformance"
               [] alert_severity \in {"critical", "CRITICAL"} -> "majorOutage"
               [] alert_severity \in {"resolved", "Resolved"} -> "operational"
       /\ issue_payload.statusChange.propagateUp =
             (alert_severity \in {"critical", "CRITICAL"})

(***************************************************************************)
(* incident_workflow.py: main checks the severity, loads the configuration  *)
(* and constructs a client; run_incident_workflow issues seven client calls *)
(* one after the other.  A client call is taken by what it can yield: a     *)
(* decoded payload or one of the client's exceptions.                       *)
(***************************************************************************)
\* sys.argv[2]: the two severities and a word that is neither.
WorkflowSeverityArgs == {"degradedPerformance", "majorOutage", "minor"}

ChangeStatusUrl == "/status-page/components/{component_id}/change-status"

\* The calls of run_incident_workflow in the order of its statements; status
\* is the status a change-status payload carries.
WorkflowPlan(sev) ==
    <<[verb |-> "POST", url |-> "/status-page/issues", status |-> ""],
      [verb |-> "POST", url |-> ChangeStatusUrl, status |-> sev],
      [verb |-> "GET", url |-> "/status-page/incidents", status |-> ""],
      [verb |-> "GET", url |-> "/status-page/issues/summary", status |-> ""],
      [verb |-> "POST", url |-> ChangeStatusUrl, status |-> "operational"],
      [verb |-> "GET", url |-> "/status-page/incidents", status |-> ""],
      [verb |-> "GET", url |-> "/status-page/components/{component_id}/status-changes",
       status |-> ""]>>

\* What client.get and client.post can yield: the classification of an
\* answer, a transport failure, or the failure to authenticate.
ClientCallOutcomes ==
    {AttemptOutcome(resp) : resp \in Responses}
        \cup {Raise("AuthenticationError", 0, "", 102)}

\* A call the workflow issued, and how it ended.
WorkflowCallEvent(call, out) ==
    [verb |-> call.verb, url |-> call.url, status |-> call.status,
     outcome |-> out.kind, exc |-> out.exc, payload |-> out.payload]

WorkflowInit ==
    /\ severity \in WorkflowSeverityArgs
    /\ workflow_pc = "main"
    /\ workflow_calls = << >>
    /\ workflow_exit = NotExited
    /\ ClientUnconstructed
    /\ LoaderUnused
    /\ ReporterUnused
    /\ IssueUnused
    /\ MonitorUnused
    /\ GateUnused

\* main up to the call of run_incident_workflow: the severity check, and
\* get_config, which returns or raises ValueError.
WorkflowMain ==
    /\ workflow_pc = "main"
    /\ IF severity \notin {"degradedPerformance", "majorOutage"}
       THEN /\ workflow_pc' = "done"
            /\ workflow_exit' = 1
       ELSE \E configured \in BOOLEAN :
               IF configured
               THEN /\ workflow_pc' = "run"
                    /\ UNCHANGED workflow_exit
               ELSE /\ workflow_pc' = "done"
                    /\ workflow_exit' = 1
    /\ UNCHANGED <<severity, workflow_calls, clientVars, loaderVars, reporterVars,
                   issueVars, monitorVars, gateVars>>

\* Faulty variant: the workflow goes on after a call that raised.
WorkflowAbortsNever(out) == FALSE

\* No statement of run_incident_workflow catches: an exception of a call
\* leaves the function.
WorkflowAborts(out) == out.kind = "raise"

\* The next call of run_incident_workflow and what follows it up to the
\* call after: on an exception main exits with 1 (an exception main does
\* not catch ends the process with 1 as well); after the last call main
\* returns.
WorkflowStep ==
    /\ workflow_pc = "run"
    /\ LET k == Len(workflow_calls) + 1
       IN \E out \in ClientCallOutcomes :
             /\ workflow_calls' =
                   Append(workflow_calls, WorkflowCallEvent(WorkflowPlan(severity)[k], out))
             /\ IF WorkflowAborts(out)
                THEN /\ workflow_pc' = "done"
                     /\ workflow_exit' = 1
                ELSE IF k = Len(WorkflowPlan(severity))
                THEN /\ workflow_pc' = "done"
                     /\ workflow_exit' = 0
                ELSE UNCHANGED <<workflow_pc, workflow_exit>>
    /\ UNCHANGED <<severity, clientVars, loaderVars, reporterVars,
                   issueVars, monitorVars, gateVars>>

WorkflowNext ==
    \/ WorkflowMain
    \/ WorkflowStep

WorkflowSpec == WorkflowInit /\ [][WorkflowNext]_vars

\* The calls issued so far are the first calls of the fixed order.
WorkflowInOrder ==
    /\ Len(workflow_calls) <= 7
    /\ \A i \in 1..Len(workflow_calls) :
          LET c == workflow_calls[i]
          IN <<c.verb, c.url, c.status>> =
                CASE i = 1 -> <<"POST", "/status-page/issues", "">>
                  [] i = 2 -> <<"POST", "/status-page/components/{component_id}/change-status", severity>>
                  [] i = 3 -> <<"GET", "/status-page/incidents", "">>
                  [] i = 4 -> <<"GET", "/status-page/issues/summary", "">>
                  [] i = 5 -> <<"POST", "/status-page/components/{component_id}/change-status", "operational">>
                  [] i = 6 -> <<"GET", "/status-page/incidents", "">>
                  [] i = 7 -> <<"GET", "/status-page/components/{component_id}/status-changes", "">>

PostedSeverity ==
    \E i \in 1..Len(workflow_calls) :
        workflow_calls[i].verb = "POST" /\ workflow_calls[i].status = severity
PostedOperational ==
    \E i \in 1..Len(workflow_calls) :
        workflow_calls[i].verb = "POST" /\ workflow_calls[i].status = "operational"

Thresholds == {Secs(0 - 5), Secs(0), Secs(25), Secs(50), Secs(100)}

\* errorBudgetRemainingPercentage, a fraction of the budget: overspent,
\* none, an eighth, a quarter, a half, all.  These are floats whose product
\* with 100 is exact, so the rational product is the float product.
Budgets == {<<0 - 1, 4>>, Secs(0), <<1, 8>>, <<1, 4>>, <<1, 2>>, Secs(1)}

\* An objective of the SLO: its errorBudgetRemainingPercentage is a number,
\* is null, or is missing.
Objectives ==
    {[kind |-> "number", value |-> b] : b \in Budgets}
        \cup {[kind |-> "null", value |-> Secs(0)], [kind |-> "missing", value |-> Secs(0)]}

\* The decoded SLO data: no "objectives" key, an empty list, one objective,
\* or two.
SloDatas ==
    {[has_objectives |-> FALSE, objectives |-> << >>],
     [has_objectives |-> TRUE, objectives |-> << >>]}
        \cup {[has_objectives |-> TRUE, objectives |-> <<o>>] : o \in Objectives}
        \cup {[has_objectives |-> TRUE, objectives |-> <<o, [kind |-> "number", value |-> <<1, 2>>]>>] :
                 o \in Objectives}

\* The ways get_slo_status fails: the token request, the transport, the
\* status of the answer, its decoding.
SloFailures == {45, 62, 73, 75, 77, 79, 81}

GateRaise(line) == [NoGateResult EXCEPT !.kind = "raise", !.line = line]

\* Faulty variant: a budget equal to the threshold passes.
PassGateAtLeast(pct, minimum) == RLeq(minimum, pct)

\* error_budget_percentage_pct > threshold
PassGate(pct, minimum) == ~RLeq(pct, minimum)

evaluate_quality_gate(data, minimum) ==
    IF ~data.has_objectives \/ data.objectives = << >>
    THEN GateRaise(115)
    ELSE LET objective == data.objectives[1]
             error_budget_percentage ==
                 IF objective.kind = "missing" THEN Secs(0) ELSE objective.value
             error_budget_percentage_pct == FloatMul(error_budget_percentage, Secs(100))
         IN IF objective.kind = "null"
            THEN \* None * 100 raises TypeError, which the last clause wraps
                 GateRaise(115)
            ELSE [kind |-> "return",
                  pass_gate |-> PassGate(error_budget_percentage_pct, minimum),
                  error_budget_pct |-> error_budget_percentage_pct,
                  line |-> 110]

GateInit ==
    /\ threshold \in Thresholds
    /\ slo_data = NoSloData
    /\ gate_pc = "main"
    /\ gate_result = NoGateResult
    /\ gate_exit = NotExited
    /\ ClientUnconstructed
    /\ LoaderUnused
    /\ ReporterUnused
    /\ IssueUnused
    /\ MonitorUnused
    /\ WorkflowUnused

\* slo_data = nobl9.get_slo_status(...): the data, or an exception that
\* main's except clause answers with exit status 1.
GetSloStatus ==
    /\ gate_pc = "main"
    /\ \/ /\ slo_data' \in SloDatas
          /\ gate_pc' = "evaluate"
          /\ UNCHANGED <<gate_result, gate_exit>>
       \/ \E line \in SloFailures :
             /\ gate_result' = GateRaise(line)
             /\ gate_pc' = "done"
             /\ gate_exit' = 1
             /\ UNCHANGED slo_data
    /\ UNCHANGED <<threshold, clientVars, loaderVars, reporterVars, issueVars,
                   monitorVars, workflowVars>>

\* pass_gate, error_budget_pct = nobl9.evaluate_quality_gate(slo_data,
\* args.threshold), and the exit.
EvaluateQualityGate ==
    /\ gate_pc = "evaluate"
    /\ LET out == evaluate_quality_gate(slo_data, threshold)
       IN /\ gate_result' = out
          /\ gate_pc' = "done"
          /\ gate_exit' = IF out.kind = "return" /\ out.pass_gate THEN 0 ELSE 1
    /\ UNCHANGED <<threshold, slo_data, clientVars, loaderVars, reporterVars,
                   issueVars, monitorVars, workflowVars>>

GateNext ==
    \/ GetSloStatus
    \/ EvaluateQualityGate

GateSpec == GateInit /\ [][GateNext]_vars

(***************************************************************************)
(* C30: the gate passes exactly when the errorBudgetRemainingPercentage of  *)
(* the first objective, times 100, is strictly above the threshold: a       *)
(* budget equal to the threshold fails, a missing field counts as 0, and    *)
(* with threshold 0 every positive budget passes; SLO data without          *)
(* objectives is an error; the script exits with 0 only when the gate       *)
(* passes, and with 1 when it fails or an error occurs.                     *)
(***************************************************************************)
C30_QualityGate ==
    /\ gate_exit \in {0 - 1, 0, 1}
    /\ gate_pc = "done" <=> gate_exit \in {0, 1}
    /\ gate_pc = "done" /\ gate_result.kind = "raise" => gate_exit = 1
    /\ gate_pc = "done" /\ gate_result.line \notin {110, 115} => gate_result.kind = "raise"
    /\ gate_pc = "done" /\ gate_result.line \in {110, 115} =>
          IF ~slo_data.has_objectives \/ Len(slo_data.objectives) = 0
          THEN gate_result.kind = "raise"
          ELSE LET first == slo_data.objectives[1]
                   budget == IF first.kind = "missing" THEN <<0, 1>> ELSE first.value
                   above == budget[1] * 100 * threshold[2] > threshold[1] * budget[2]
               IN IF first.kind = "null" THEN gate_result.kind = "raise"
                  ELSE /\ gate_result.kind = "return"
                       /\ gate_result.pass_gate <=> above
                       /\ gate_exit = 0 <=> above
                       /\ gate_result.error_budget_pct[1] * budget[2]
                             = budget[1] * 100 * gate_result.error_budget_pct[2]
                       /\ threshold = <<0, 1>> => (gate_result.pass_gate <=> budget[1] > 0)
    /\ gate_exit = 0 => gate_result.kind = "return" /\ gate_result.pass_gate

\* A quarter of the budget remains and the threshold is 25: the gate fails.
C30_Witness ==
    /\ gate_pc = "done"
    /\ threshold = <<25, 1>>
    /\ Len(slo_data.objectives) = 2
    /\ slo_data.objectives[1].kind = "number"
    /\ slo_data.objectives[1].value = <<1, 4>>
    /\ gate_result.kind = "return"
    /\ gate_result.error_budget_pct = <<25, 1>>
    /\ ~gate_result.pass_gate
    /\ gate_exit = 1

=============================================================================
